---------------------------- MODULE Spec2Model ----------------------------
(***************************************************************************)
(* TOTP generator (src/main.go): base-32 secret decoding, time-step        *)
(* encoding, keyed hash, dynamic truncation, decimal formatting, and the   *)
(* GUI host that calls the pipeline from a timer goroutine and from the     *)
(* widget callbacks.                                                        *)
(*                                                                          *)
(* Strings are sequences of one-character strings, byte slices are          *)
(* sequences of 0..255.  Go indexes from 0, TLA+ from 1: hash[k] in the     *)
(* source is hash[k + 1] here.                                              *)
(***************************************************************************)
EXTENDS Integers, Sequences, FiniteSets, TLC

VARIABLES
    \* --- the GUI program (main) ---
    secret,      \* main's variable secret: a string header [ptr, len]
    hashFunc,    \* main's variable hashFunc: "SHA1" | "SHA256" | "SHA512"
    digits,      \* main's variable digits
    label,       \* totpLabel's text
    progress,    \* numerator i of progress.SetValue(float64(i) / 30.0)
    now,         \* time.Now().Unix()
    elapsed,     \* seconds slept by the refresh goroutine since it started
    tpc,         \* refresh goroutine: its position
    ti,          \* refresh goroutine: the loop variable i
    targs,       \* refresh goroutine: the arguments of updateTOTP read so far
    tres,        \* refresh goroutine: what generateTOTP returned
    upc,         \* UI goroutine: position inside the running callback
    ustore,      \* UI goroutine: the string being stored into secret
    ures,        \* UI goroutine: the call of updateTOTP in progress
    clicks,      \* number of callbacks run so far
    shown,       \* history: the updateTOTP call whose result the label holds
    lastTimer,   \* history: elapsed at the last timer-driven updateTOTP, or -1
    timerGap,    \* history: seconds between the last two timer-driven calls, or -1
    \* --- generateTOTP called directly ---
    gin,         \* the arguments of the calls
    gres,        \* the last call: [called, at, r]
    gprev,       \* the call before it
    \* --- HashTruncation called directly ---
    digest,      \* the argument
    tout         \* the outcome: [done, fail, value]

vars == <<secret, hashFunc, digits, label, progress, now, elapsed, tpc, ti,
          targs, tres, upc, ustore, ures, clicks, shown, lastTimer, timerGap,
          gin, gres, gprev, digest, tout>>

guiVars == <<secret, hashFunc, digits, label, progress, elapsed, tpc, ti,
             targs, tres, upc, ustore, ures, clicks, shown, lastTimer, timerGap>>
genVars == <<gin, gres, gprev>>
truncVars == <<digest, tout>>

--------------------------------------------------------------------------
(* Bounds *)

\* seconds the refresh goroutine is followed for
MaxSeconds == 63
\* widget callbacks run in one behaviour
MaxClicks == 2
\* seconds the clock advances between direct calls of generateTOTP
MaxTicks == 2
\* digests for HashTruncation: byte i is (mul * i + add) % 256, mul in 0..MaxMul
MaxMul == 2

--------------------------------------------------------------------------
(* Integer operations of Go, on two's complement integers of any width,   *)
(* four bits at a time: x \div 16 is the arithmetic shift by 4, x % 16 the *)
(* low four bits, 0 and -1 the all-zeros and all-ones words.               *)

RECURSIVE And1(_, _)
And1(a, b) ==
    IF a = 0 \/ b = 0 THEN 0
    ELSE 2 * And1(a \div 2, b \div 2) + (a % 2) * (b % 2)

RECURSIVE Or1(_, _)
Or1(a, b) ==
    IF a = 0 THEN b
    ELSE IF b = 0 THEN a
    ELSE 2 * Or1(a \div 2, b \div 2) + (IF a % 2 = 1 \/ b % 2 = 1 THEN 1 ELSE 0)

\* & and | of two four-bit values
And4 == [a \in 0..15 |-> [b \in 0..15 |-> And1(a, b)]]
Or4 == [a \in 0..15 |-> [b \in 0..15 |-> Or1(a, b)]]

RECURSIVE BitAnd(_, _)
BitAnd(a, b) ==
    IF a = 0 \/ b = 0 THEN 0
    ELSE IF a = -1 THEN b
    ELSE IF b = -1 THEN a
    ELSE 16 * BitAnd(a \div 16, b \div 16) + And4[a % 16][b % 16]

RECURSIVE BitOr(_, _)
BitOr(a, b) ==
    IF a = 0 THEN b
    ELSE IF b = 0 THEN a
    ELSE IF a = -1 \/ b = -1 THEN -1
    ELSE 16 * BitOr(a \div 16, b \div 16) + Or4[a % 16][b % 16]

\* x << n on an int for 0 <= x, 8 <= n <= 24.  Go's int is 32 or 64 bits wide;
\* the shift is taken at 32 bits, the width at which bit 31 is the sign bit
\* (at 64 bits no shift of main.go reaches the sign bit).
ShiftLeft(x, n) ==
    LET kept == x % (2 ^ (32 - n))
    IN  IF kept >= 2 ^ (31 - n)
        THEN (kept - 2 ^ (32 - n)) * (2 ^ n)
        ELSE kept * (2 ^ n)

\* b << n and b >> n on a byte (uint8)
ByteShl(b, n) == (b * (2 ^ n)) % 256
ByteShr(b, n) == b \div (2 ^ n)

--------------------------------------------------------------------------
(* DecodeBase32: base32.StdEncoding.DecodeString *)

Alphabet ==
    << "A", "B", "C", "D", "E", "F", "G", "H", "I", "J", "K", "L", "M",
       "N", "O", "P", "Q", "R", "S", "T", "U", "V", "W", "X", "Y", "Z",
       "2", "3", "4", "5", "6", "7" >>

PadChar == "="

\* decodeMap: the 5-bit value of an alphabet character, 0xFF for any other
AlphabetChars == {Alphabet[i] : i \in 1..32}

DecodeMapTable ==
    [c \in AlphabetChars |-> (CHOOSE i \in 1..32 : Alphabet[i] = c) - 1]

DecodeMap(c) == IF c \in AlphabetChars THEN DecodeMapTable[c] ELSE 255

\* stripNewlines: "\r" and "\n" are dropped before decoding
IsNotNewline(c) == c # "\n" /\ c # "\r"

StripNewlines(s) == SelectSeq(s, IsNotNewline)

\* The inner loop of decode: reads one quantum of up to 8 characters into
\* dbuf.  src[pos + 1 ..] is what is left of the input (the slice src of the
\* source).  Returns [err, dlen, end, dbuf, pos].
RECURSIVE ReadQuantum(_, _, _, _)
ReadQuantum(src, pos, j, dbuf) ==
    IF j = 8 THEN
        [err |-> FALSE, dlen |-> 8, end |-> FALSE, dbuf |-> dbuf, pos |-> pos]
    ELSE IF pos = Len(src) THEN
        \* the end is reached and the padding is missing
        [err |-> TRUE, dlen |-> j, end |-> FALSE, dbuf |-> dbuf, pos |-> pos]
    ELSE
        LET in == src[pos + 1]
            left == Len(src) - (pos + 1)      \* len(src) after src = src[1:]
            v == DecodeMap(in)
        IN  IF in = PadChar /\ j >= 2 /\ left < 8 THEN
                IF left + j < 8 - 1 THEN
                    \* not enough padding
                    [err |-> TRUE, dlen |-> j, end |-> FALSE,
                     dbuf |-> dbuf, pos |-> pos + 1]
                ELSE IF \E k \in 0..(8 - 1 - j - 1) :
                            left > k /\ src[pos + 1 + k + 1] # PadChar THEN
                    \* incorrect padding
                    [err |-> TRUE, dlen |-> j, end |-> FALSE,
                     dbuf |-> dbuf, pos |-> pos + 1]
                ELSE IF j = 1 \/ j = 3 \/ j = 6 THEN
                    \* 1, 3 and 6 characters hold no whole byte
                    [err |-> TRUE, dlen |-> j, end |-> TRUE,
                     dbuf |-> dbuf, pos |-> pos + 1]
                ELSE
                    [err |-> FALSE, dlen |-> j, end |-> TRUE,
                     dbuf |-> dbuf, pos |-> pos + 1]
            ELSE IF v = 255 THEN
                [err |-> TRUE, dlen |-> j, end |-> FALSE,
                 dbuf |-> dbuf, pos |-> pos + 1]
            ELSE
                ReadQuantum(src, pos + 1, j + 1, [dbuf EXCEPT ![j + 1] = v])

\* The switch of decode: packs 8 5-bit values into up to 5 bytes
PackQuantum(d, dlen) ==
    LET b0 == BitOr(ByteShl(d[1], 3), ByteShr(d[2], 2))
        b1 == BitOr(BitOr(ByteShl(d[2], 6), ByteShl(d[3], 1)), ByteShr(d[4], 4))
        b2 == BitOr(ByteShl(d[4], 4), ByteShr(d[5], 1))
        b3 == BitOr(BitOr(ByteShl(d[5], 7), ByteShl(d[6], 2)), ByteShr(d[7], 3))
        b4 == BitOr(ByteShl(d[7], 5), d[8])
    IN  CASE dlen = 8 -> <<b0, b1, b2, b3, b4>>
          [] dlen = 7 -> <<b0, b1, b2, b3>>
          [] dlen = 5 -> <<b0, b1, b2>>
          [] dlen = 4 -> <<b0, b1>>
          [] dlen = 2 -> <<b0>>
          [] OTHER    -> <<>>

\* The outer loop of decode: for len(src) > 0 && !end
RECURSIVE DecodeLoop(_, _, _)
DecodeLoop(src, pos, out) ==
    IF pos = Len(src) THEN [err |-> "nil", key |-> out]
    ELSE
        LET q == ReadQuantum(src, pos, 0, <<0, 0, 0, 0, 0, 0, 0, 0>>)
        IN  IF q.err THEN [err |-> "CorruptInputError", key |-> out]
            ELSE IF q.end THEN
                [err |-> "nil", key |-> out \o PackQuantum(q.dbuf, q.dlen)]
            ELSE DecodeLoop(src, q.pos, out \o PackQuantum(q.dbuf, q.dlen))

\* Returns [err, key]; err is "nil" or "CorruptInputError"
DecodeBase32(s) == DecodeLoop(StripNewlines(s), 0, <<>>)

--------------------------------------------------------------------------
(* ConvertTime *)

\* for i := 7; i >= 0; i-- { data[i] = byte(interval & 0xff); interval >>= 8 }
RECURSIVE ConvertTimeLoop(_, _, _)
ConvertTimeLoop(i, interval, data) ==
    IF i < 0 THEN data
    ELSE ConvertTimeLoop(i - 1, interval \div 256,
                         [data EXCEPT ![i + 1] = BitAnd(interval, 255)])

ConvertTime(interval) == ConvertTimeLoop(7, interval, [k \in 1..8 |-> 0])

--------------------------------------------------------------------------
(* GenerateHMAC.  crypto/hmac and the three hash primitives are not        *)
(* computed: the digest is a fixed function of (primitive, key, data)      *)
(* whose length is the primitive's digest size and whose bytes depend on   *)
(* its three arguments.  Properties of every digest content are stated    *)
(* for HashTruncation itself, over enumerated digests.                     *)

Primitives == {"SHA1", "SHA256", "SHA512"}

\* sha1.Size, sha256.Size, sha512.Size
HashSize(h) ==
    CASE h = "SHA1"   -> 20
      [] h = "SHA256" -> 32
      [] h = "SHA512" -> 64

RECURSIVE WeightedSum(_, _)
WeightedSum(s, i) ==
    IF i > Len(s) THEN 0 ELSE (i * s[i] + WeightedSum(s, i + 1)) % 65521

GenerateHMAC(h, key, data) ==
    LET q == HashSize(h) + 3 * WeightedSum(key, 1) + WeightedSum(data, 1)
    IN  [i \in 1..HashSize(h) |-> ((q % 251) * i + (q \div 5) + i * i) % 256]

--------------------------------------------------------------------------
(* HashTruncation.  Returns [fail, value]: fail is "none" when the int is   *)
(* returned; indexing outside the slice panics (runtime error: index out   *)
(* of range) and no value is returned.  The function has no error result.  *)

Panicked == [fail |-> "panic: index out of range", value |-> 0]

\* HashTruncation with 0xff in place of the sign mask 0x7f
HashTruncationNoSignMask(hash) ==
    IF Len(hash) = 0 THEN Panicked
    ELSE
        LET offset == BitAnd(hash[Len(hash)], 15)
        IN  IF offset + 3 >= Len(hash) THEN Panicked
            ELSE [fail |-> "none",
                  value |->
                    BitOr(BitOr(BitOr(
                        ShiftLeft(BitAnd(hash[offset + 1], 255), 24),
                        ShiftLeft(BitAnd(hash[offset + 2], 255), 16)),
                        ShiftLeft(BitAnd(hash[offset + 3], 255), 8)),
                        BitAnd(hash[offset + 4], 255))]

\* HashTruncation with the offset taken from the high four bits
HashTruncationHighNibble(hash) ==
    IF Len(hash) = 0 THEN Panicked
    ELSE
        LET offset == ByteShr(hash[Len(hash)], 4)
        IN  IF offset + 3 >= Len(hash) THEN Panicked
            ELSE [fail |-> "none",
                  value |->
                    BitOr(BitOr(BitOr(
                        ShiftLeft(BitAnd(hash[offset + 1], 127), 24),
                        ShiftLeft(BitAnd(hash[offset + 2], 255), 16)),
                        ShiftLeft(BitAnd(hash[offset + 3], 255), 8)),
                        BitAnd(hash[offset + 4], 255))]

HashTruncation(hash) ==
    IF Len(hash) = 0 THEN Panicked               \* hash[len(hash)-1], len 0
    ELSE
        LET offset == BitAnd(hash[Len(hash)], 15)
        IN  IF offset + 3 >= Len(hash) THEN Panicked   \* hash[offset..offset+3]
            ELSE [fail |-> "none",
                  value |->
                    BitOr(BitOr(BitOr(
                        ShiftLeft(BitAnd(hash[offset + 1], 127), 24),
                        ShiftLeft(BitAnd(hash[offset + 2], 255), 16)),
                        ShiftLeft(BitAnd(hash[offset + 3], 255), 8)),
                        BitAnd(hash[offset + 4], 255))]

--------------------------------------------------------------------------
(* generateTOTP *)

Digit == << "0", "1", "2", "3", "4", "5", "6", "7", "8", "9" >>

\* strconv.Itoa: the shortest decimal form, no padding
RECURSIVE Itoa(_)
Itoa(n) ==
    IF n < 0 THEN <<"-">> \o Itoa(0 - n)
    ELSE IF n < 10 THEN <<Digit[n + 1]>>
    ELSE Itoa(n \div 10) \o <<Digit[(n % 10) + 1]>>

\* divisor := 1; for i := 0; i < digits; i++ { divisor *= 10 }
RECURSIVE Divisor(_, _, _)
Divisor(i, d, divisor) ==
    IF i < d THEN Divisor(i + 1, d, divisor * 10) ELSE divisor

\* seconds of one time step
Step == 30

\* the interval without the division by the step
IntervalNoDivide(t) == t

\* interval := time.Now().Unix() / 30   (t >= 0: after 1970)
Interval(t) == t \div Step

NoResult ==
    [totp |-> <<>>, err |-> "nil", stage |-> "none", key |-> <<>>,
     data |-> <<>>, hash |-> <<>>, truncatedHash |-> 0]

\* t is what time.Now().Unix() returns inside the call.  The result is
\* [totp, err]; stage, key, data, hash and truncatedHash record how far the
\* function got and its locals.
generateTOTP(s, h, d, t) ==
    LET dec == DecodeBase32(s)
    IN  IF dec.err # "nil" THEN
            [NoResult EXCEPT !.err = dec.err, !.stage = "decode"]
        ELSE
            LET interval == Interval(t)
                data == ConvertTime(interval)
                hash == GenerateHMAC(h, dec.key, data)
                tr == HashTruncation(hash)
            IN  IF tr.fail # "none" THEN
                    [totp |-> <<>>, err |-> tr.fail, stage |-> "truncate",
                     key |-> dec.key, data |-> data, hash |-> hash,
                     truncatedHash |-> 0]
                ELSE
                    [totp |-> Itoa(tr.value % Divisor(0, d, 1)),
                     err |-> "nil", stage |-> "format",
                     key |-> dec.key, data |-> data, hash |-> hash,
                     truncatedHash |-> tr.value]

--------------------------------------------------------------------------
(* updateTOTP *)

ErrorText ==
    << "E", "r", "r", "o", "r", " ", "G", "e", "n", "e", "r", "a", "t",
       "i", "n", "g", " ", "T", "O", "T", "P" >>

\* updateTOTP without its error branch
LabelTextAlwaysCode(r) == r.totp

\* the text updateTOTP hands to label.SetText
LabelText(r) == IF r.err # "nil" THEN ErrorText ELSE r.totp

--------------------------------------------------------------------------
(* Inputs *)

DefaultSecret ==
    << "J", "B", "S", "W", "Y", "3", "D", "P",
       "E", "H", "P", "K", "3", "P", "X", "P" >>

\* the base-32 form of the ASCII secret "12345678901234567890"
RfcSecret ==
    << "G", "E", "Z", "D", "G", "N", "B", "V", "G", "Y", "3", "T", "Q", "O",
       "J", "Q", "G", "E", "Z", "D", "G", "N", "B", "V", "G", "Y", "3", "T",
       "Q", "O", "J", "Q" >>

PaddedSecret == << "M", "Y", "=", "=", "=", "=", "=", "=" >>

EmptyText == << >>

BadDigitSecret ==
    << "J", "B", "S", "W", "Y", "3", "D", "P",
       "E", "H", "P", "K", "3", "P", "X", "1" >>

SecretTexts ==
    { DefaultSecret, RfcSecret, PaddedSecret, EmptyText, BadDigitSecret,
      << "1", "8" >>,
      << "j", "b", "s", "w", "y", "3", "d", "p" >>,
      << "J", "B", "S", "W", "Y" >>,
      << "M", "Y", "=", "=", "=", "=", "=", "A" >>,
      << "J", "B", "S", "W", "Y", "3", "D", "P", "\n" >> }

\* what the user types into secretEntry
EntryTexts == { PaddedSecret, EmptyText, BadDigitSecret }

\* digit counts for direct calls; the GUI offers "6", "7", "8"
DigitCounts == {0, 5, 6, 7, 8, 9}

StartTimes == {0, 29, 59, 1111111109}

\* the clock when the window opens: one second before a step boundary
GuiStartTimes == {1111111109}

--------------------------------------------------------------------------
(* HashTruncation called directly on enumerated digests *)

DigestLens == {0, 1, 3, 4, 18, 19, 20, 28, 32, 64}

AddBytes == {0, 127, 128, 255}

PatternDigest(n, mul, add, last) ==
    [i \in 1..n |-> IF i = n THEN last ELSE (mul * i + add) % 256]

GuiIdle ==
    /\ secret = [ptr |-> DefaultSecret, len |-> Len(DefaultSecret)]
    /\ hashFunc = "SHA1"
    /\ digits = 6
    /\ label = <<>>
    /\ progress = 0
    /\ elapsed = 0
    /\ tpc = "loop"
    /\ ti = 0
    /\ targs = [secret |-> <<>>, hashFunc |-> "SHA1", digits |-> 0]
    /\ tres = [secret |-> <<>>, hashFunc |-> "SHA1", digits |-> 0,
               r |-> NoResult]
    /\ upc = "idle"
    /\ ustore = <<>>
    /\ ures = [secret |-> <<>>, hashFunc |-> "SHA1", digits |-> 0,
               r |-> NoResult]
    /\ clicks = 0
    /\ shown = [secret |-> <<>>, hashFunc |-> "SHA1", digits |-> 0]
    /\ lastTimer = -1
    /\ timerGap = -1

NoCall == [called |-> FALSE, at |-> 0, r |-> NoResult]

GenIdle ==
    /\ gin = [secret |-> <<>>, hashFunc |-> "SHA1", digits |-> 0]
    /\ gres = NoCall
    /\ gprev = NoCall

TruncIdle ==
    /\ digest = <<>>
    /\ tout = [done |-> FALSE, fail |-> "none", value |-> 0]

InitTrunc ==
    /\ GuiIdle
    /\ GenIdle
    /\ now = 0
    /\ \E n \in DigestLens, mul \in 0..MaxMul, add \in AddBytes, last \in 0..255 :
           digest = PatternDigest(n, mul, add, last)
    /\ tout = [done |-> FALSE, fail |-> "none", value |-> 0]

Truncate ==
    /\ ~tout.done
    /\ LET r == HashTruncation(digest)
       IN  tout' = [done |-> TRUE, fail |-> r.fail, value |-> r.value]
    /\ UNCHANGED <<guiVars, genVars, now, digest>>

NextTrunc == Truncate

SpecTrunc == InitTrunc /\ [][NextTrunc]_vars

--------------------------------------------------------------------------
(* generateTOTP called directly *)

InitGen ==
    /\ GuiIdle
    /\ TruncIdle
    /\ gin \in [secret : SecretTexts, hashFunc : Primitives, digits : DigitCounts]
    /\ now \in StartTimes
    /\ gres = NoCall
    /\ gprev = NoCall

GenCall ==
    /\ gprev' = gres
    /\ gres' = [called |-> TRUE, at |-> now,
                r |-> generateTOTP(gin.secret, gin.hashFunc, gin.digits, now)]
    /\ UNCHANGED <<guiVars, truncVars, now, gin>>

\* a second passes between two calls; the clock is followed for MaxTicks
\* seconds past a start time
GenTick ==
    /\ \E t0 \in StartTimes : now >= t0 /\ now < t0 + MaxTicks
    /\ now' = now + 1
    /\ UNCHANGED <<guiVars, truncVars, genVars>>

NextGen == GenCall \/ GenTick

SpecGen == InitGen /\ [][NextGen]_vars

--------------------------------------------------------------------------
(* main: the widgets' callbacks and the refresh goroutine.                 *)
(*                                                                          *)
(* The callbacks run one at a time on the UI goroutine; the refresh         *)
(* goroutine runs beside them.  secret, hashFunc and digits are captured    *)
(* by reference and written and read without synchronization.  hashFunc     *)
(* and digits are one word each: a racing read returns the old or the new   *)
(* value.  secret is a two-word string header (data pointer, length): the   *)
(* button's store writes the words one after the other, in either order,    *)
(* and a read between the two stores pairs the pointer of one string with   *)
(* the length of the other.                                                 *)

\* strconv.Atoi on the select's option: the value, or 0 with an error
RECURSIVE AtoiLoop(_, _)
AtoiLoop(s, acc) ==
    IF s = <<>> THEN acc
    ELSE IF \E d \in 0..9 : Digit[d + 1] = Head(s)
    THEN AtoiLoop(Tail(s), 10 * acc + (CHOOSE d \in 0..9 : Digit[d + 1] = Head(s)))
    ELSE 0

Atoi(s) == IF s = <<>> THEN 0 ELSE AtoiLoop(s, 0)

AlgorithmOptions == {"SHA1", "SHA256", "SHA512"}

DigitsOptions == { <<"6">>, <<"7">>, <<"8">> }

\* bytes found past the end of a string's backing array by a torn read
OobChars == {"A", "="}

\* the string a read of the header hdr yields; fill stands for memory past
\* the end of the backing array
ReadString(hdr, fill) ==
    IF hdr.len <= Len(hdr.ptr) THEN SubSeq(hdr.ptr, 1, hdr.len)
    ELSE hdr.ptr \o [k \in 1..(hdr.len - Len(hdr.ptr)) |-> fill]

\* updateTOTP up to its call of label.SetText: its parameters and what
\* generateTOTP returned, at clock t
Call(s, h, d, t) ==
    [secret |-> s, hashFunc |-> h, digits |-> d, r |-> generateTOTP(s, h, d, t)]

ArgsOf(c) == [secret |-> c.secret, hashFunc |-> c.hashFunc, digits |-> c.digits]

\* no call of updateTOTP in progress: its parameters and locals do not exist
NoArgs == [secret |-> <<>>, hashFunc |-> "SHA1", digits |-> 0]
NoUpdate == [secret |-> <<>>, hashFunc |-> "SHA1", digits |-> 0, r |-> NoResult]

\* The state when window.ShowAndRun is reached: SetSelected("SHA1"),
\* SetSelected("6") and the call of line 186 have each run updateTOTP with
\* the defaults, and the refresh goroutine is about to start.
Init ==
    /\ GenIdle
    /\ TruncIdle
    /\ now \in GuiStartTimes
    /\ secret = [ptr |-> DefaultSecret, len |-> Len(DefaultSecret)]
    /\ hashFunc = "SHA1"
    /\ digits = Atoi(<<"6">>)
    /\ label = LabelText(generateTOTP(DefaultSecret, "SHA1", 6, now))
    /\ shown = [secret |-> DefaultSecret, hashFunc |-> "SHA1", digits |-> 6]
    /\ progress = 0
    /\ elapsed = 0
    /\ tpc = "loop"
    /\ ti = 0
    /\ targs = NoArgs
    /\ tres = NoUpdate
    /\ upc = "idle"
    /\ ustore = <<>>
    /\ ures = NoUpdate
    /\ clicks = 0
    /\ lastTimer = -1
    /\ timerGap = -1

timerVars == <<tpc, ti, targs, tres, progress, elapsed, lastTimer, timerGap>>

\* algorithmSelect's callback up to label.SetText
AlgorithmSelect ==
    /\ upc = "idle"
    /\ clicks < MaxClicks
    /\ \E value \in AlgorithmOptions :
        /\ hashFunc' = value
        /\ ures' = Call(ReadString(secret, "A"), value, digits, now)
    /\ upc' = "setText"
    /\ clicks' = clicks + 1
    /\ UNCHANGED <<secret, digits, label, shown, ustore, now, timerVars,
                   genVars, truncVars>>

\* digitsSelect's callback up to label.SetText
DigitsSelect ==
    /\ upc = "idle"
    /\ clicks < MaxClicks
    /\ \E value \in DigitsOptions :
        /\ digits' = Atoi(value)
        /\ ures' = Call(ReadString(secret, "A"), hashFunc, Atoi(value), now)
    /\ upc' = "setText"
    /\ clicks' = clicks + 1
    /\ UNCHANGED <<secret, hashFunc, label, shown, ustore, now, timerVars,
                   genVars, truncVars>>

\* secretButton's callback: the first word of secret = secretEntry.Text
SecretButton ==
    /\ upc = "idle"
    /\ clicks < MaxClicks
    /\ \E text \in EntryTexts :
        /\ ustore' = text
        /\ \/ secret' = [secret EXCEPT !.ptr = text]
           \/ secret' = [secret EXCEPT !.len = Len(text)]
    /\ upc' = "store"
    /\ clicks' = clicks + 1
    /\ UNCHANGED <<hashFunc, digits, label, shown, ures, now, timerVars,
                   genVars, truncVars>>

\* secretButton's callback: the second word, then updateTOTP up to SetText
SecretStored ==
    /\ upc = "store"
    /\ secret' = [ptr |-> ustore, len |-> Len(ustore)]
    /\ ures' = Call(ustore, hashFunc, digits, now)
    /\ ustore' = <<>>
    /\ upc' = "setText"
    /\ UNCHANGED <<hashFunc, digits, label, shown, clicks, now,
                   timerVars, genVars, truncVars>>

\* a callback's updateTOTP: label.SetText
UiSetText ==
    /\ upc = "setText"
    /\ label' = LabelText(ures.r)
    /\ shown' = ArgsOf(ures)
    /\ ures' = NoUpdate
    /\ upc' = "idle"
    /\ UNCHANGED <<secret, hashFunc, digits, ustore, clicks, now,
                   timerVars, genVars, truncVars>>

\* last value of i for which the refresh loop's body runs (i <= 30)
LoopLast == 30

\* for i := 0; i <= 30; i++ { progress.SetValue(...); time.Sleep(1 * time.Second) }
TimerTick ==
    /\ tpc = "loop"
    /\ ti <= LoopLast
    /\ elapsed < MaxSeconds
    /\ progress' = ti
    /\ now' = now + 1
    /\ elapsed' = elapsed + 1
    /\ ti' = ti + 1
    /\ UNCHANGED <<secret, hashFunc, digits, label, shown, tpc, targs, tres,
                   upc, ustore, ures, clicks, lastTimer, timerGap,
                   genVars, truncVars>>

\* the loop is left and updateTOTP's arguments are evaluated: secret
TimerReadSecret ==
    /\ tpc = "loop"
    /\ ti > LoopLast
    /\ \E fill \in OobChars :
           targs' = [targs EXCEPT !.secret = ReadString(secret, fill)]
    /\ tpc' = "readHash"
    /\ lastTimer' = elapsed
    /\ timerGap' = IF lastTimer >= 0 THEN elapsed - lastTimer ELSE -1
    /\ UNCHANGED <<secret, hashFunc, digits, label, shown, ti, tres, progress,
                   elapsed, now, upc, ustore, ures, clicks, genVars, truncVars>>

\* ... hashFunc
TimerReadHash ==
    /\ tpc = "readHash"
    /\ targs' = [targs EXCEPT !.hashFunc = hashFunc]
    /\ tpc' = "readDigits"
    /\ UNCHANGED <<secret, hashFunc, digits, label, shown, ti, tres, progress,
                   elapsed, now, lastTimer, timerGap, upc, ustore, ures,
                   clicks, genVars, truncVars>>

\* ... digits, and updateTOTP up to label.SetText
TimerReadDigits ==
    /\ tpc = "readDigits"
    /\ targs' = NoArgs
    /\ tres' = Call(targs.secret, targs.hashFunc, digits, now)
    /\ tpc' = "setText"
    /\ UNCHANGED <<secret, hashFunc, digits, label, shown, ti, progress,
                   elapsed, now, lastTimer, timerGap, upc, ustore, ures,
                   clicks, genVars, truncVars>>

\* the goroutine's updateTOTP: label.SetText; the outer for starts over
TimerSetText ==
    /\ tpc = "setText"
    /\ label' = LabelText(tres.r)
    /\ shown' = ArgsOf(tres)
    /\ tres' = NoUpdate
    /\ tpc' = "loop"
    /\ ti' = 0
    /\ UNCHANGED <<secret, hashFunc, digits, targs, progress, elapsed,
                   now, lastTimer, timerGap, upc, ustore, ures, clicks,
                   genVars, truncVars>>

Next ==
    \/ AlgorithmSelect
    \/ DigitsSelect
    \/ SecretButton
    \/ SecretStored
    \/ UiSetText
    \/ TimerTick
    \/ TimerReadSecret
    \/ TimerReadHash
    \/ TimerReadDigits
    \/ TimerSetText

Spec == Init /\ [][Next]_vars

--------------------------------------------------------------------------
(* Properties *)

\* C1: a code returned for digits in {6,7,8} (and a non-empty key) has
\* exactly `digits` characters, zero-padded on the left when the remainder
\* is small.
C1_CodeHasDigitsChars ==
    (gres.called /\ gres.r.err = "nil" /\ gres.r.key # <<>>
                 /\ gin.digits \in {6, 7, 8})
        => Len(gres.r.totp) = gin.digits

\* C2: generateTOTP called with a digit count outside {6,7,8} and a secret
\* that decodes to a non-empty key returns the error UnsupportedDigitCount
\* and no code.
C2_OtherDigitCountsRejected ==
    (gres.called /\ gin.digits \notin {6, 7, 8}
                 /\ DecodeBase32(gin.secret).err = "nil"
                 /\ DecodeBase32(gin.secret).key # <<>>)
        => (gres.r.err = "UnsupportedDigitCount" /\ gres.r.totp = <<>>)

\* A character outside the base-32 alphabet before any padding
HasForeignChar(s) ==
    \E i \in 1..Len(s) :
        /\ s[i] \notin AlphabetChars \cup {"=", "\n", "\r"}
        /\ \A j \in 1..(i - 1) : s[j] # "="

NotBase32(s) == HasForeignChar(s) \/ DecodeBase32(s).err # "nil"

StoppedAtDecode(r) ==
    /\ r.err # "nil"
    /\ r.totp = <<>>
    /\ r.stage = "decode"
    /\ r.data = <<>> /\ r.hash = <<>>

C4_EmptyKeyRejected ==
    (gres.called /\ DecodeBase32(gin.secret).err = "nil"
                 /\ DecodeBase32(gin.secret).key = <<>>)
        => (gres.r.err = "EmptySecret" /\ gres.r.hash = <<>> /\ gres.r.totp = <<>>)

\* the integer an 8-byte big-endian buffer encodes
RECURSIVE BigEndian(_, _)
BigEndian(d, n) == IF n = 0 THEN 0 ELSE BigEndian(d, n - 1) * 256 + d[n]

\* C5: two calls with the same secret, primitive and digit count at times
\* in the same 30-second step return the same code, and the counter fed to
\* the HMAC is floor(unixSeconds / 30).
C5_SameStepSameCode ==
    /\ (gres.called /\ gprev.called /\ gres.at \div 30 = gprev.at \div 30)
           => (gres.r.totp = gprev.r.totp /\ gres.r.err = gprev.r.err
               /\ gres.r.data = gprev.r.data)
    /\ (gres.called /\ gres.r.err = "nil")
           => (Len(gres.r.data) = 8 /\ BigEndian(gres.r.data, 8) = gres.at \div 30)

C5_Witness ==
    /\ gres.called /\ gprev.called
    /\ gres.at = gprev.at + 1
    /\ gres.at \div 30 = gprev.at \div 30
    /\ gres.r.err = "nil"
    /\ gres.r.totp # <<>>
    /\ gres.r.totp = gprev.r.totp

\* C6: for a digest of 20, 32 or 64 bytes HashTruncation returns a value in
\* [0, 2^31 - 1].
C6_TruncatedIn31Bits ==
    (tout.done /\ Len(digest) \in {20, 32, 64})
        => (tout.fail = "none" /\ tout.value >= 0 /\ tout.value <= 2147483647)

C6_Witness ==
    /\ tout.done
    /\ Len(digest) = 20
    /\ digest[(digest[20] % 16) + 1] >= 128
    /\ tout.fail = "none"
    /\ tout.value >= 0

\* C7: for a digest h of 20 bytes or more HashTruncation(h) is
\* (h[o] mod 128) * 2^24 + h[o+1] * 2^16 + h[o+2] * 2^8 + h[o+3] with
\* o = (last byte of h) mod 16.
C7_TruncationIsBigEndianWord ==
    (tout.done /\ Len(digest) >= 20)
        => LET o == digest[Len(digest)] % 16
           IN  /\ tout.fail = "none"
               /\ tout.value = (digest[o + 1] % 128) * 16777216
                               + digest[o + 2] * 65536
                               + digest[o + 3] * 256
                               + digest[o + 4]

C7_Witness ==
    /\ tout.done
    /\ Len(digest) = 64
    /\ digest[64] % 16 = 15
    /\ digest[16] >= 128
    /\ digest[17] # digest[18]
    /\ tout.value = (digest[16] - 128) * 16777216 + digest[17] * 65536
                    + digest[18] * 256 + digest[19]

\* C8: HashTruncation on a digest shorter than offset + 4 bytes (the empty
\* digest included) fails with DigestTooShort.
C8_ShortDigestFailsDigestTooShort ==
    (tout.done /\ (Len(digest) = 0
                   \/ Len(digest) < (digest[Len(digest)] % 16) + 4))
        => tout.fail = "DigestTooShort"

\* C9: 30 one-second ticks pass between two consecutive timer-driven calls
\* of updateTOTP.
C9_TimerPeriodIsThirtySeconds ==
    timerGap # -1 => timerGap = 30

\* C10: once no update is in progress the label holds the code or error of
\* the current secret, hashFunc and digits (at some time step since the
\* window opened).
C10_LabelFromCurrentParameters ==
    (upc = "idle" /\ tpc = "loop")
        => \E iv \in Interval(now - elapsed)..Interval(now) :
               label = LabelText(generateTOTP(ReadString(secret, "A"),
                                              hashFunc, digits, iv * Step))

==========================================================================
